---- MODULE Spec2Model ----
(***************************************************************************)
(* Voice identification service (wispr-clone/backend/python_service/main.py)*)
(*                                                                         *)
(* State: the in-memory voice database (a Python dict, insertion ordered), *)
(* the content of embeddings.json, and the coroutines of the two request   *)
(* handlers.  Both handlers are `async def` and run on the one event loop  *)
(* of the uvicorn process: a handler keeps the loop from one await to the  *)
(* next, and the only await is `await file.read()` (not in mock mode).     *)
(*                                                                         *)
(* Numbers: embeddings are float64 arrays whose elements are small whole    *)
(* numbers, and a similarity is the float64 that line 127 computes for     *)
(* them, rounding included.                                                *)
(***************************************************************************)
EXTENDS Integers, Sequences, FiniteSets, TLC

\* ------------------------------------------------------------------ bounds

\* Number of request slots (requests that can be in flight together).
NumReq == 2
\* Cap on the number of vectors held by the in-memory database.
MaxVecs == 2
\* Budget of failed writes of embeddings.json (I/O errors) in a behaviour.
MaxFaults == 1

Req == 1..NumReq
\* Speaker names offered to /enroll.
Names == {"alice", "bob"}
\* Vectors the embedding provider can return (all of one dimension): the zero
\* vector and three vectors whose similarities are 0.424, 0.70 and 0.707.
Embeddings == {<<0, 0, 0>>, <<1, 0, 0>>, <<3, 3, 0>>, <<3, 4, 5>>}
\* A vector of another dimension, as an embeddings.json written by another
\* encoder would hold.
LegacyVec == <<1, 1>>

VARIABLES
    voice_db,          \* line 40, the dict: sequence of [name, embs], in insertion order
    EMBEDDINGS_FILE,   \* line 39, the file: [exists, text], the JSON text as tokens
    MOCK_MODE,         \* lines 12-18: whether the resemblyzer import failed
    req,               \* per slot: the coroutine of a request being handled
    running,           \* the slot whose coroutine holds the event loop, or 0
    acked,             \* enrollments answered with success in this process
    faults             \* failed writes of embeddings.json so far

vars == <<voice_db, EMBEDDINGS_FILE, MOCK_MODE, req, running, acked, faults>>

\* ------------------------------------------------------------------ numbers

Sign(x) == IF x > 0 THEN 1 ELSE IF x < 0 THEN -1 ELSE 0

\* A natural number of any size: its digits in base 2^15, lowest first, the
\* highest not zero.
Base == 32768

RECURSIVE Big(_)
Big(n) == IF n = 0 THEN <<>> ELSE <<n % Base>> \o Big(n \div Base)

RECURSIVE Trim(_)
Trim(a) ==
    IF a # <<>> /\ a[Len(a)] = 0 THEN Trim(SubSeq(a, 1, Len(a) - 1)) ELSE a

RECURSIVE AddC(_, _, _)
AddC(a, b, c) ==
    IF a = <<>> /\ b = <<>> THEN (IF c = 0 THEN <<>> ELSE <<c>>)
    ELSE LET x == IF a = <<>> THEN 0 ELSE a[1]
             y == IF b = <<>> THEN 0 ELSE b[1]
             s == x + y + c
         IN  <<s % Base>>
             \o AddC(IF a = <<>> THEN a ELSE Tail(a),
                     IF b = <<>> THEN b ELSE Tail(b), s \div Base)

Add(a, b) == AddC(a, b, 0)

\* a - b for a >= b
RECURSIVE SubB(_, _, _)
SubB(a, b, c) ==
    IF a = <<>> THEN <<>>
    ELSE LET y == IF b = <<>> THEN 0 ELSE b[1]
             s == a[1] - y - c
         IN  <<s % Base>>
             \o SubB(Tail(a), IF b = <<>> THEN b ELSE Tail(b),
                     IF s < 0 THEN 1 ELSE 0)

Sub(a, b) == Trim(SubB(a, b, 0))

\* -1, 0 or 1 as a < b, a = b or a > b
RECURSIVE CmpFrom(_, _, _)
CmpFrom(a, b, i) ==
    IF i = 0 THEN 0
    ELSE IF a[i] # b[i] THEN Sign(a[i] - b[i])
    ELSE CmpFrom(a, b, i - 1)

Cmp(a, b) ==
    IF Len(a) # Len(b) THEN Sign(Len(a) - Len(b)) ELSE CmpFrom(a, b, Len(a))

\* a * k + c for k, c < 2^15
RECURSIVE MulSmall(_, _, _)
MulSmall(a, k, c) ==
    IF a = <<>> THEN (IF c = 0 THEN <<>> ELSE <<c>>)
    ELSE LET s == a[1] * k + c
         IN  <<s % Base>> \o MulSmall(Tail(a), k, s \div Base)

RECURSIVE Mul(_, _)
Mul(a, b) ==
    IF a = <<>> \/ b = <<>> THEN <<>>
    ELSE Add(MulSmall(a, b[1], 0), <<0>> \o Mul(a, Tail(b)))

RECURSIVE Pow2(_)
Pow2(k) == IF k = 0 THEN 1 ELSE 2 * Pow2(k - 1)

\* a * 2^k
RECURSIVE Shl(_, _)
Shl(a, k) ==
    IF a = <<>> \/ k = 0 THEN a
    ELSE IF k >= 15 THEN <<0>> \o Shl(a, k - 15)
    ELSE MulSmall(a, Pow2(k), 0)

\* a \div k for 0 < k < 2^15, from the highest digit down
RECURSIVE DivSmallFrom(_, _, _, _)
DivSmallFrom(a, k, i, r) ==
    IF i = 0 THEN <<>>
    ELSE LET s == r * Base + a[i]
         IN  Append(DivSmallFrom(a, k, i - 1, s % k), s \div k)

\* a \div 2^k
RECURSIVE Shr(_, _)
Shr(a, k) ==
    IF a = <<>> \/ k = 0 THEN a
    ELSE IF k >= 15 THEN Shr(Tail(a), k - 15)
    ELSE Trim(DivSmallFrom(a, Pow2(k), Len(a), 0))

RECURSIVE Bits(_)
Bits(n) == IF n = 0 THEN 0 ELSE 1 + Bits(n \div 2)

\* The number of binary digits of a.
BitLen(a) == IF a = <<>> THEN 0 ELSE 15 * (Len(a) - 1) + Bits(a[Len(a)])

Odd(a) == a # <<>> /\ a[1] % 2 = 1

\* q with bit b added when the square stays within n.
SqrtBit(n, q, b) ==
    LET c == Add(q, Shl(<<1>>, b))
    IN  IF b >= 0 /\ Cmp(Mul(c, c), n) <= 0 THEN c ELSE q

\* The largest q with q * q <= n, found bit by bit from bit b down (eight bits
\* to a step).
RECURSIVE SqrtBits(_, _, _)
SqrtBits(n, q, b) ==
    LET c == SqrtBit(n, SqrtBit(n, SqrtBit(n, SqrtBit(n, SqrtBit(n, SqrtBit(n,
             SqrtBit(n, SqrtBit(n, q, b), b - 1), b - 2), b - 3), b - 4),
             b - 5), b - 6), b - 7)
    IN  IF b < 8 \/ Mul(c, c) = n THEN c ELSE SqrtBits(n, c, b - 8)

\* q with bit b added when the product with d stays within n.
DivBit(n, d, q, b) ==
    LET c == Add(q, Shl(<<1>>, b))
    IN  IF b >= 0 /\ Cmp(Mul(c, d), n) <= 0 THEN c ELSE q

\* The largest q with q * d <= n, found bit by bit from bit b down.
RECURSIVE DivBits(_, _, _, _)
DivBits(n, d, q, b) ==
    LET c == DivBit(n, d, DivBit(n, d, DivBit(n, d, DivBit(n, d, DivBit(n, d,
             DivBit(n, d, DivBit(n, d, DivBit(n, d, q, b), b - 1), b - 2),
             b - 3), b - 4), b - 5), b - 6), b - 7)
    IN  IF b < 8 \/ Mul(c, d) = n THEN c ELSE DivBits(n, d, c, b - 8)

\* ------------------------------------------------------------------ float64

\* A float64 is sgn * m * 2^e with m a number of exactly 53 binary digits, or
\* zero (m empty), or nan.  Arithmetic rounds to nearest, ties to even
\* (IEEE 754); exponent range and infinities are out of reach here.
Zero == [nan |-> FALSE, sgn |-> 0, m |-> <<>>, e |-> 0]
NaN == [nan |-> TRUE, sgn |-> 0, m |-> <<>>, e |-> 0]

\* The float64 nearest to sgn * (x + t) * 2^e, ties to even, where 0 < t < 1
\* when sticky and t = 0 otherwise (x has at least 55 digits when sticky).
Round(sgn, x, e, sticky) ==
    LET l == BitLen(x)
    IN  IF l <= 53
        THEN [nan |-> FALSE, sgn |-> sgn, m |-> Shl(x, 53 - l), e |-> e - (53 - l)]
        ELSE LET s == l - 53
                 q == Shr(x, s)
                 r == Sub(x, Shl(q, s))
                 c == Cmp(r, Shl(<<1>>, s - 1))
                 up == c > 0 \/ (c = 0 /\ (sticky \/ Odd(q)))
                 m == IF up THEN Add(q, <<1>>) ELSE q
             IN  IF BitLen(m) = 54
                 THEN [nan |-> FALSE, sgn |-> sgn, m |-> Shr(m, 1), e |-> e + s + 1]
                 ELSE [nan |-> FALSE, sgn |-> sgn, m |-> m, e |-> e + s]

\* float(n) for an integer n
FromInt(n) ==
    IF n = 0 THEN Zero
    ELSE Round(Sign(n), Big(IF n < 0 THEN -n ELSE n), 0, FALSE)

\* np.sqrt of a positive float64
FSqrt(a) ==
    IF a.sgn = 0 THEN Zero
    ELSE LET odd == a.e % 2 = 1
             n == Shl(a.m, IF odd THEN 59 ELSE 58)
             x == SqrtBits(n, <<>>, 56)
         IN  Round(1, x, (a.e - (IF odd THEN 59 ELSE 58)) \div 2, Mul(x, x) # n)

\* a * b on float64
FMul(a, b) ==
    IF a.nan \/ b.nan THEN NaN
    ELSE IF a.sgn = 0 \/ b.sgn = 0 THEN Zero
    ELSE Round(a.sgn * b.sgn, Mul(a.m, b.m), a.e + b.e, FALSE)

\* a / b on float64 (numpy: 0.0 / 0.0 is nan, with a warning; b is zero only
\* when a is, a norm of zero making the dot product zero)
FDiv(a, b) ==
    IF a.nan \/ b.nan \/ b.sgn = 0 THEN NaN
    ELSE IF a.sgn = 0 THEN Zero
    ELSE LET n == Shl(a.m, 56)
             q == DivBits(n, b.m, <<>>, 57)
         IN  Round(a.sgn * b.sgn, q, a.e - b.e - 56, Mul(q, b.m) # n)

\* |a| > |b| for a and b other than zero and nan
MagGt(a, b) == a.e > b.e \/ (a.e = b.e /\ Cmp(a.m, b.m) > 0)

\* a > b on float64: false as soon as one side is nan
Gt(a, b) ==
    /\ ~a.nan
    /\ ~b.nan
    /\ IF a.sgn # b.sgn THEN a.sgn > b.sgn
       ELSE IF a.sgn = 1 THEN MagGt(a, b)
       ELSE IF a.sgn = -1 THEN MagGt(b, a)
       ELSE FALSE

\* Mutant: the comparison with the threshold is <= instead of <.
LtOrEqual(a, b) == ~a.nan /\ ~b.nan /\ ~Gt(a, b)

\* a < b on float64.
Lt(a, b) == Gt(b, a)

\* -1.0, the first best_score.
MinusOne == FromInt(-1)
\* The literal 0.70: the float64 nearest to 7 / 10.
Threshold == FDiv(FromInt(7), FromInt(10))

\* ------------------------------------------------------------------ scores

RECURSIVE DotTo(_, _, _)
DotTo(a, b, i) == IF i = 0 THEN 0 ELSE a[i] * b[i] + DotTo(a, b, i - 1)

\* np.dot of two 1-d arrays of the same length.
Dot(a, b) == DotTo(a, b, Len(a))

\* np.dot raises ValueError when the shapes differ.
DotRaises(a, b) == Len(a) # Len(b)

\* Mutant: the norm of the stored vector is left out of the denominator.
SimilarityOneNorm(q, e) ==
    FDiv(FromInt(Dot(q, e)),
         FMul(FSqrt(FromInt(Dot(q, q))), FSqrt(FromInt(Dot(q, q)))))

\* np.dot(q, e) / (np.linalg.norm(q) * np.linalg.norm(e)) on float64 arrays
\* whose elements are whole numbers: the dot products are exact, the norm is
\* the rounded square root, the product of the norms and the quotient are
\* rounded; 0.0 / 0.0 yields nan (with a RuntimeWarning, no exception).
Similarity(q, e) ==
    FDiv(FromInt(Dot(q, e)),
         FMul(FSqrt(FromInt(Dot(q, q))), FSqrt(FromInt(Dot(e, e)))))

\* The vectors that occur in a behaviour.
Vectors == Embeddings \cup {LegacyVec}

\* The pairs of vectors np.dot accepts.
SameShape == {p \in Vectors \X Vectors : Len(p[1]) = Len(p[2])}

\* Line 127 for every such pair, computed once.
Similarities ==
    {[q |-> p[1], e |-> p[2], similarity |-> Similarity(p[1], p[2])] : p \in SameShape}

\* The similarity line 127 computes for q and e.
SimilarityOf(q, e) == (CHOOSE t \in Similarities : t.q = q /\ t.e = e).similarity

\* ------------------------------------------------------------------ the dict

\* name in voice_db
Has(db, k) == \E i \in 1..Len(db) : db[i].name = k

KeyIndex(db, k) == CHOOSE i \in 1..Len(db) : db[i].name = k

\* db[k] = v: a new key goes last, an existing key keeps its place.
DictSet(db, k, v) ==
    IF Has(db, k)
    THEN [db EXCEPT ![KeyIndex(db, k)].embs = v]
    ELSE Append(db, [name |-> k, embs |-> v])

RECURSIVE TotalVecs(_)
TotalVecs(db) ==
    IF db = <<>> THEN 0 ELSE Len(db[1].embs) + TotalVecs(Tail(db))

\* The (name, vector) pairs in the order `for name, embeddings in
\* voice_db.items(): for enrolled_emb in embeddings` visits them.
RECURSIVE Pairs(_)
Pairs(db) ==
    IF db = <<>> THEN <<>>
    ELSE [i \in 1..Len(db[1].embs) |-> [name |-> db[1].name, emb |-> db[1].embs[i]]]
         \o Pairs(Tail(db))

\* ------------------------------------------------------------------ JSON

Tok(t, s, n) == [t |-> t, s |-> s, n |-> n]
LBrace == Tok("{", "", 0)
RBrace == Tok("}", "", 0)
LBrack == Tok("[", "", 0)
RBrack == Tok("]", "", 0)
Str(s) == Tok("str", s, 0)
Num(n) == Tok("num", "", n)

\* e.tolist(): the elements of the array as a list of Python floats.
tolist(e) == [i \in 1..Len(e) |-> e[i]]

\* np.array(e): the list as an array.
np_array(e) == [i \in 1..Len(e) |-> e[i]]

DumpList(l) == <<LBrack>> \o [i \in 1..Len(l) |-> Num(l[i])] \o <<RBrack>>

RECURSIVE DumpLists(_)
DumpLists(ls) == IF ls = <<>> THEN <<>> ELSE DumpList(ls[1]) \o DumpLists(Tail(ls))

RECURSIVE DumpItems(_)
DumpItems(d) ==
    IF d = <<>> THEN <<>>
    ELSE <<Str(d[1].name), LBrack>> \o DumpLists(d[1].embs) \o <<RBrack>>
         \o DumpItems(Tail(d))

\* Mutant: json.dump(..., sort_keys=True).
json_dump_sorted(d) ==
    <<LBrace>>
    \o DumpItems(SelectSeq(d, LAMBDA x : x.name = "alice")
                 \o SelectSeq(d, LAMBDA x : x.name # "alice"))
    \o <<RBrace>>

\* json.dump of a dict of lists of lists of numbers (separators left out).
json_dump(d) == <<LBrace>> \o DumpItems(d) \o <<RBrace>>

\* {k: [e.tolist() for e in v] for k, v in voice_db.items()}
Serialized(db) ==
    [i \in 1..Len(db) |->
        [name |-> db[i].name,
         embs |-> [j \in 1..Len(db[i].embs) |-> tolist(db[i].embs[j])]]]

ParseFail == [ok |-> FALSE, val |-> <<>>, next |-> 0]

RECURSIVE ParseNums(_, _, _)
ParseNums(t, i, acc) ==
    IF i > Len(t) THEN ParseFail
    ELSE IF t[i].t = "num" THEN ParseNums(t, i + 1, Append(acc, t[i].n))
    ELSE IF t[i].t = "]" THEN [ok |-> TRUE, val |-> acc, next |-> i + 1]
    ELSE ParseFail

RECURSIVE ParseLists(_, _, _)
ParseLists(t, i, acc) ==
    IF i > Len(t) THEN ParseFail
    ELSE IF t[i].t = "[" THEN
        LET r == ParseNums(t, i + 1, <<>>)
        IN  IF r.ok THEN ParseLists(t, r.next, Append(acc, r.val)) ELSE ParseFail
    ELSE IF t[i].t = "]" THEN [ok |-> TRUE, val |-> acc, next |-> i + 1]
    ELSE ParseFail

RECURSIVE ParseItems(_, _, _)
ParseItems(t, i, acc) ==
    IF i > Len(t) THEN ParseFail
    ELSE IF t[i].t = "}" THEN
        IF i = Len(t) THEN [ok |-> TRUE, val |-> acc, next |-> i + 1] ELSE ParseFail
    ELSE IF t[i].t = "str" /\ i < Len(t) /\ t[i + 1].t = "[" THEN
        LET r == ParseLists(t, i + 2, <<>>)
        IN  IF r.ok THEN ParseItems(t, r.next, DictSet(acc, t[i].s, r.val))
            ELSE ParseFail
    ELSE ParseFail

\* json.load: the dict of lists of lists, or a failure (an exception) for a
\* text that is no such document.
json_load(t) ==
    IF Len(t) = 0 \/ t[1].t # "{" THEN ParseFail ELSE ParseItems(t, 2, <<>>)

\* {k: [np.array(e) for e in v] for k, v in data.items()}
Deserialized(data) ==
    [i \in 1..Len(data) |->
        [name |-> data[i].name,
         embs |-> [j \in 1..Len(data[i].embs) |-> np_array(data[i].embs[j])]]]

NoFile == [exists |-> FALSE, text |-> <<>>]
FileOf(text) == [exists |-> TRUE, text |-> text]

\* Mutant: the entries are stored one by one while the text is read, so that a
\* failure leaves the speaker read so far in the database.
load_db_partial(f) ==
    IF ~f.exists THEN <<>>
    ELSE LET data == json_load(f.text)
         IN  IF data.ok THEN Deserialized(data.val)
             ELSE IF Len(f.text) >= 2 /\ f.text[2].t = "str"
             THEN <<[name |-> f.text[2].s, embs |-> <<>>]>>
             ELSE <<>>

\* load_db() at process start, voice_db being {} before it: the file's
\* database, or {} when there is no file or reading it raised.
load_db(f) ==
    IF ~f.exists THEN <<>>
    ELSE LET data == json_load(f.text)
         IN  IF data.ok THEN Deserialized(data.val) ELSE <<>>

\* ------------------------------------------------------------------ identify

Unknown == "Unknown"
Error == "Error"

\* Mutant: the maximum is tracked with >= instead of >.
RECURSIVE ScanLastWins(_, _, _, _, _)
ScanLastWins(q, ps, i, best_score, best_match) ==
    IF i > Len(ps) THEN
        [speaker |-> IF Lt(best_score, Threshold) THEN Unknown ELSE best_match,
         confidence |-> best_score, nsim |-> Len(ps)]
    ELSE IF DotRaises(q, ps[i].emb) THEN
        [speaker |-> Error, confidence |-> Zero, nsim |-> i - 1]
    ELSE
        LET similarity == SimilarityOf(q, ps[i].emb)
        IN  IF Gt(similarity, best_score) \/ similarity = best_score
            THEN ScanLastWins(q, ps, i + 1, similarity, ps[i].name)
            ELSE ScanLastWins(q, ps, i + 1, best_score, best_match)

\* The scan of identify_speaker from pair i on; an exception ends it with the
\* answer of the except clause.
RECURSIVE Scan(_, _, _, _, _)
Scan(q, ps, i, best_score, best_match) ==
    IF i > Len(ps) THEN
        [speaker |-> IF Lt(best_score, Threshold) THEN Unknown ELSE best_match,
         confidence |-> best_score, nsim |-> Len(ps)]
    ELSE IF DotRaises(q, ps[i].emb) THEN
        [speaker |-> Error, confidence |-> Zero, nsim |-> i - 1]
    ELSE
        LET similarity == SimilarityOf(q, ps[i].emb)
        IN  IF Gt(similarity, best_score)
            THEN Scan(q, ps, i + 1, similarity, ps[i].name)
            ELSE Scan(q, ps, i + 1, best_score, best_match)

\* Mutant: the confidence of an overridden answer is reset to 0.0.
MatchClamped(q, db) ==
    LET m == Scan(q, Pairs(db), 1, MinusOne, Unknown)
    IN  IF m.speaker = Unknown THEN [m EXCEPT !.confidence = Zero] ELSE m

\* Lines 120-136 for the query q.
Match(q, db) == Scan(q, Pairs(db), 1, MinusOne, Unknown)

\* ------------------------------------------------------------------ requests

NoOut == [status |-> "none", speaker |-> "", confidence |-> Zero, nsim |-> 0]

\* A free slot.  `since` is the number of enrollments that had been answered
\* with success when the request of the slot was accepted.
Idle ==
    [kind |-> "none", pc |-> "idle", name |-> "", emb |-> <<>>, buf |-> <<>>,
     since |-> 0, out |-> NoOut]

\* Enroll requests accepted and not yet appended.
InFlightEnrolls ==
    Cardinality({r \in Req : req[r].kind = "enroll" /\ req[r].pc = "await_read"})

\* A request takes the first free slot.
FirstFree(r) ==
    /\ req[r].pc = "idle"
    /\ \A s \in Req : s < r => req[s].pc # "idle"

TypeOK ==
    /\ running \in 0..NumReq
    /\ MOCK_MODE \in BOOLEAN
    /\ EMBEDDINGS_FILE.exists \in BOOLEAN
    /\ faults \in 0..MaxFaults
    /\ \A r \in Req : req[r].pc \in {"idle", "await_read", "appended", "writing", "done"}

InitFiles ==
    {NoFile,
     FileOf(json_dump(<<[name |-> "alice", embs |-> <<LegacyVec>>]>>))}

Init ==
    /\ EMBEDDINGS_FILE \in InitFiles
    /\ voice_db = load_db(EMBEDDINGS_FILE)
    /\ MOCK_MODE \in BOOLEAN
    /\ req = [r \in Req |-> Idle]
    /\ running = 0
    /\ acked = <<>>
    /\ faults = 0

\* ------------------------------------------------------------------ /enroll

\* Mutant: voice_db[name] = [embedding], the list is replaced.
enroll_replace(db, n, v) == DictSet(db, n, <<v>>)

\* Mutant: an embedding the speaker already has is not appended again.
enroll_dedup(db, n, v) ==
    IF Has(db, n)
    THEN IF \E i \in 1..Len(db[KeyIndex(db, n)].embs) : db[KeyIndex(db, n)].embs[i] = v
         THEN db
         ELSE DictSet(db, n, Append(db[KeyIndex(db, n)].embs, v))
    ELSE DictSet(db, n, <<v>>)

\* Lines 89-91: voice_db[name].append(embedding), the list created when absent.
enroll_append(db, n, v) ==
    IF Has(db, n)
    THEN DictSet(db, n, Append(db[KeyIndex(db, n)].embs, v))
    ELSE DictSet(db, n, <<v>>)

Started(kind, pc, n, v) ==
    [Idle EXCEPT !.kind = kind, !.pc = pc, !.name = n, !.emb = v,
                 !.since = IF kind = "enroll" THEN Len(acked) ELSE 0]

\* Lines 95-96: the exception becomes an HTTP 500 answer.
Failed500(r) ==
    [req EXCEPT ![r].pc = "done", ![r].out.status = "http500", ![r].buf = <<>>]

\* The handler is entered (line 72).  In mock mode the embedding is drawn and
\* appended at once (lines 75, 89-91) and the handler keeps the loop; otherwise
\* it opens the temp file and yields the loop at `await file.read()` (line 80).
EnrollBegin(r, n) ==
    /\ running = 0
    /\ FirstFree(r)
    /\ TotalVecs(voice_db) + InFlightEnrolls < MaxVecs
    /\ IF MOCK_MODE
       THEN /\ \E v \in Embeddings :
                 /\ req' = [req EXCEPT ![r] = Started("enroll", "appended", n, v)]
                 /\ voice_db' = enroll_append(voice_db, n, v)
            /\ running' = r
       ELSE /\ req' = [req EXCEPT ![r] = Started("enroll", "await_read", n, <<>>)]
            /\ running' = 0
            /\ UNCHANGED voice_db
    /\ UNCHANGED <<EMBEDDINGS_FILE, MOCK_MODE, acked, faults>>

\* The coroutine is resumed after the read: lines 80-87 write the temp file and
\* ask the encoder for the embedding, which lines 89-91 append.
EnrollEmbed(r) ==
    /\ running = 0
    /\ req[r].kind = "enroll"
    /\ req[r].pc = "await_read"
    /\ \E v \in Embeddings :
         /\ req' = [req EXCEPT ![r].pc = "appended", ![r].emb = v]
         /\ voice_db' = enroll_append(voice_db, req[r].name, v)
    /\ running' = r
    /\ UNCHANGED <<EMBEDDINGS_FILE, MOCK_MODE, acked, faults>>

\* The coroutine is resumed after the read and lines 80-87 raise (the temp
\* file, the decoder or the encoder): the handler answers 500 (lines 95-96).
EnrollEmbedFails(r) ==
    /\ running = 0
    /\ req[r].kind = "enroll"
    /\ req[r].pc = "await_read"
    /\ req' = Failed500(r)
    /\ running' = r
    /\ UNCHANGED <<voice_db, EMBEDDINGS_FILE, MOCK_MODE, acked, faults>>

\* Mutant: the file is opened with an await (an asynchronous file API), which
\* yields the loop while the file is open.
SaveOpenYields(r) ==
    /\ running = r
    /\ req[r].pc = "appended"
    /\ req' = [req EXCEPT ![r].pc = "writing",
                          ![r].buf = json_dump(Serialized(voice_db))]
    /\ EMBEDDINGS_FILE' = FileOf(<<>>)
    /\ running' = 0
    /\ UNCHANGED <<voice_db, MOCK_MODE, acked, faults>>

\* Mutant: only the list of the enrolled speaker is serialized.
SaveOpenOwnOnly(r) ==
    /\ running = r
    /\ req[r].pc = "appended"
    /\ req' = [req EXCEPT ![r].pc = "writing",
                          ![r].buf = json_dump(Serialized(
                              SelectSeq(voice_db, LAMBDA x : x.name = req[r].name)))]
    /\ EMBEDDINGS_FILE' = FileOf(<<>>)
    /\ UNCHANGED <<voice_db, MOCK_MODE, running, acked, faults>>

\* save_db, lines 59-60: the database is serialized and the file opened for
\* writing, which empties it.
SaveOpen(r) ==
    /\ running = r
    /\ req[r].pc = "appended"
    /\ req' = [req EXCEPT ![r].pc = "writing",
                          ![r].buf = json_dump(Serialized(voice_db))]
    /\ EMBEDDINGS_FILE' = FileOf(<<>>)
    /\ UNCHANGED <<voice_db, MOCK_MODE, running, acked, faults>>

\* save_db, line 60: open raises (OSError), the file is left as it was and the
\* handler answers 500 (lines 95-96).
SaveOpenFails(r) ==
    /\ running = r
    /\ req[r].pc = "appended"
    /\ faults < MaxFaults
    /\ faults' = faults + 1
    /\ req' = Failed500(r)
    /\ UNCHANGED <<voice_db, EMBEDDINGS_FILE, MOCK_MODE, running, acked>>

\* Mutant: the text stays in the buffer of a file that is never closed.
SaveDumpUnflushed(r) ==
    /\ running = r
    /\ req[r].pc = "writing"
    /\ req' = [req EXCEPT ![r].pc = "done", ![r].buf = <<>>,
                          ![r].out.status = "success"]
    /\ acked' = Append(acked, [name |-> req[r].name, emb |-> req[r].emb])
    /\ UNCHANGED <<voice_db, EMBEDDINGS_FILE, MOCK_MODE, running, faults>>

\* save_db, line 61 and the end of the with block: the text is written and the
\* file closed; line 94 then answers {"status": "success"}.
SaveDump(r) ==
    /\ running = r
    /\ req[r].pc = "writing"
    /\ EMBEDDINGS_FILE' = FileOf(req[r].buf)
    /\ req' = [req EXCEPT ![r].pc = "done", ![r].buf = <<>>,
                          ![r].out.status = "success"]
    /\ acked' = Append(acked, [name |-> req[r].name, emb |-> req[r].emb])
    /\ UNCHANGED <<voice_db, MOCK_MODE, running, faults>>

\* How much of the text a failing write leaves: half of it.
PartialWrites(buf) == {Len(buf) \div 2}

\* save_db, line 61: the write raises part way (OSError), a strict prefix of
\* the text is left in the file and the handler answers 500 (lines 95-96).
SaveDumpFails(r) ==
    /\ running = r
    /\ req[r].pc = "writing"
    /\ faults < MaxFaults
    /\ faults' = faults + 1
    /\ \E k \in PartialWrites(req[r].buf) :
            EMBEDDINGS_FILE' = FileOf(SubSeq(req[r].buf, 1, k))
    /\ req' = Failed500(r)
    /\ UNCHANGED <<voice_db, MOCK_MODE, running, acked>>

\* ------------------------------------------------------------------ /identify

Answer(r, q, m) ==
    [req EXCEPT ![r] = [Started("identify", "done", "", q) EXCEPT
        !.out = [status |-> "ok", speaker |-> m.speaker,
                 confidence |-> m.confidence, nsim |-> m.nsim]]]

\* Line 104.
EmptyAnswer == [speaker |-> Unknown, confidence |-> Zero, nsim |-> 0]
\* Line 140.
ErrorAnswer == [speaker |-> Error, confidence |-> Zero, nsim |-> 0]

\* Mutant: the check of lines 103-104 for an empty database is missing.
IdentifyBeginNoCheck(r) ==
    /\ running = 0
    /\ FirstFree(r)
    /\ IF MOCK_MODE \/ voice_db = <<>>
       THEN /\ \E q \in Embeddings : req' = Answer(r, q, Match(q, voice_db))
            /\ running' = r
       ELSE /\ req' = [req EXCEPT ![r] = Started("identify", "await_read", "", <<>>)]
            /\ running' = 0
    /\ UNCHANGED <<voice_db, EMBEDDINGS_FILE, MOCK_MODE, acked, faults>>

\* The handler is entered: lines 103-104 answer at once for an empty database;
\* in mock mode lines 108-136 run without yielding; otherwise the handler
\* yields the loop at `await file.read()` (line 113).
IdentifyBegin(r) ==
    /\ running = 0
    /\ FirstFree(r)
    /\ IF voice_db = <<>>
       THEN /\ req' = Answer(r, <<>>, EmptyAnswer)
            /\ running' = r
       ELSE IF MOCK_MODE
       THEN /\ \E q \in Embeddings : req' = Answer(r, q, Match(q, voice_db))
            /\ running' = r
       ELSE /\ req' = [req EXCEPT ![r] = Started("identify", "await_read", "", <<>>)]
            /\ running' = 0
    /\ UNCHANGED <<voice_db, EMBEDDINGS_FILE, MOCK_MODE, acked, faults>>

\* Mutant: the query embedding is added to the samples of the speaker found.
IdentifyRunEnrolls(r) ==
    /\ running = 0
    /\ req[r].kind = "identify"
    /\ req[r].pc = "await_read"
    /\ \E q \in Embeddings :
         LET m == Match(q, voice_db)
         IN  /\ req' = Answer(r, q, m)
             /\ voice_db' = IF Has(voice_db, m.speaker)
                             THEN enroll_append(voice_db, m.speaker, q)
                             ELSE voice_db
    /\ running' = r
    /\ UNCHANGED <<EMBEDDINGS_FILE, MOCK_MODE, acked, faults>>

\* The coroutine is resumed after the read: lines 113-136 embed the query and
\* scan the database.
IdentifyRun(r) ==
    /\ running = 0
    /\ req[r].kind = "identify"
    /\ req[r].pc = "await_read"
    /\ \E q \in Embeddings : req' = Answer(r, q, Match(q, voice_db))
    /\ running' = r
    /\ UNCHANGED <<voice_db, EMBEDDINGS_FILE, MOCK_MODE, acked, faults>>

\* Mutant: the embedding is computed outside the try block, so its exception
\* leaves the handler.
IdentifyEmbedRaises(r) ==
    /\ running = 0
    /\ req[r].kind = "identify"
    /\ req[r].pc = "await_read"
    /\ req' = Failed500(r)
    /\ running' = r
    /\ UNCHANGED <<voice_db, EMBEDDINGS_FILE, MOCK_MODE, acked, faults>>

\* The coroutine is resumed after the read and lines 113-117 raise: the except
\* clause answers (lines 138-140).
IdentifyEmbedFails(r) ==
    /\ running = 0
    /\ req[r].kind = "identify"
    /\ req[r].pc = "await_read"
    /\ req' = Answer(r, <<>>, ErrorAnswer)
    /\ running' = r
    /\ UNCHANGED <<voice_db, EMBEDDINGS_FILE, MOCK_MODE, acked, faults>>

\* ------------------------------------------------------------------ process

\* The response leaves the handler, which gives the loop back.
Return(r) ==
    /\ running = r
    /\ req[r].pc = "done"
    /\ req' = [req EXCEPT ![r] = Idle]
    /\ running' = 0
    /\ UNCHANGED <<voice_db, EMBEDDINGS_FILE, MOCK_MODE, acked, faults>>

\* The process ends (at any point) and is started again: lines 40 and 64.
Restart ==
    /\ voice_db' = load_db(EMBEDDINGS_FILE)
    /\ req' = [r \in Req |-> Idle]
    /\ running' = 0
    /\ acked' = <<>>
    /\ UNCHANGED <<EMBEDDINGS_FILE, MOCK_MODE, faults>>

Next ==
    \/ \E r \in Req, n \in Names : EnrollBegin(r, n)
    \/ \E r \in Req : EnrollEmbed(r)
    \/ \E r \in Req : EnrollEmbedFails(r)
    \/ \E r \in Req : SaveOpen(r)
    \/ \E r \in Req : SaveDump(r)
    \/ \E r \in Req : IdentifyBegin(r)
    \/ \E r \in Req : IdentifyRun(r)
    \/ \E r \in Req : IdentifyEmbedFails(r)
    \/ \E r \in Req : Return(r)
    \/ Restart

\* The service while every write of embeddings.json succeeds.
Spec == Init /\ [][Next]_vars

NextF ==
    \/ Next
    \/ \E r \in Req : SaveOpenFails(r)
    \/ \E r \in Req : SaveDumpFails(r)

\* The service with failing writes of embeddings.json.
SpecF == Init /\ [][NextF]_vars

\* ------------------------------------------------------------------ claims

\* Slot r holds the answer of /identify: the handler still has the loop, so
\* voice_db is the database the answer was computed from.
Answered(r) == req[r].kind = "identify" /\ req[r].pc = "done"

\* The query embedding of the answer (<<>> when none was computed).
Query(r) == req[r].emb

\* The encoder returned a query embedding and the scan ran.
Embedded(r) == Answered(r) /\ Query(r) # <<>>

Stored == Pairs(voice_db)

\* Every stored vector has the dimension of q.
SameDim(q) == \A i \in 1..Len(Stored) : Len(Stored[i].emb) = Len(q)

\* a >= b on float64.
Ge(a, b) == ~a.nan /\ ~b.nan /\ ~Gt(b, a)

\* 1.0
One == FromInt(1)

\* 0.999
P999 == FDiv(FromInt(999), FromInt(1000))

\* The cosine similarity of q and e in float64, dot(q, e) / (norm(q) * norm(e)):
\* not a number when a norm is zero.
Cosines ==
    {[q |-> p[1], e |-> p[2],
      cos |-> FDiv(FromInt(Dot(p[1], p[2])),
                   FMul(FSqrt(FromInt(Dot(p[1], p[1]))), FSqrt(FromInt(Dot(p[2], p[2])))))] :
        p \in SameShape}

Cosine(q, e) == (CHOOSE t \in Cosines : t.q = q /\ t.e = e).cos

\* The similarities of q to the stored vectors that are numbers.
Sims(q) == {Cosine(q, Stored[i].emb) : i \in 1..Len(Stored)} \ {NaN}

\* m is the maximum cosine similarity of q over all stored vectors.
IsMax(q, m) == m \in Sims(q) /\ \A x \in Sims(q) : ~Gt(x, m)

HasMax(q) == \E m \in Sims(q) : IsMax(q, m)

MaxSim(q) == CHOOSE m \in Sims(q) : IsMax(q, m)

\* The places, in iteration order, of the stored vectors whose similarity to q is m.
Attains(q, m) == {i \in 1..Len(Stored) : Cosine(q, Stored[i].emb) = m}

First(S) == CHOOSE i \in S : \A j \in S : i <= j

\* The latest enrollment answered with success.
LastAcked == acked[Len(acked)]

\* Slot r answers a query equal to the vector of the latest enrollment.
EnrolledThenIdentified(r) ==
    /\ Embedded(r)
    /\ Len(acked) > 0
    /\ LastAcked.emb = Query(r)

\* C1 as stated: enrolling V under S and then identifying with V returns S
\* with confidence at least 0.999, whatever was enrolled before (here already
\* for V of non-zero norm and stored vectors of V's dimension).
C1_Original ==
    \A r \in Req :
        (EnrolledThenIdentified(r) /\ SameDim(Query(r)) /\ Dot(Query(r), Query(r)) > 0) =>
            /\ req[r].out.speaker = LastAcked.name
            /\ Ge(req[r].out.confidence, P999)

\* C1 as amended: enrolling V under S and then identifying with V answers
\* ("Error", 0.0) when a stored vector has another dimension than V, else
\* ("Unknown", -1.0) when V has zero norm, and else the highest similarity as
\* confidence (at least 0.999) with the first speaker in iteration order that
\* holds a vector of that similarity, which is S unless such a speaker comes
\* before S.
C1_EnrollThenIdentify ==
    \A r \in Req :
        EnrolledThenIdentified(r) =>
            LET q == Query(r)
                out == req[r].out
            IN  IF ~SameDim(q)
                THEN out.speaker = Error /\ out.confidence = Zero
                ELSE IF Dot(q, q) = 0
                THEN out.speaker = Unknown /\ out.confidence = MinusOne
                ELSE /\ out.confidence = MaxSim(q)
                     /\ Ge(out.confidence, P999)
                     /\ out.speaker = Stored[First(Attains(q, MaxSim(q)))].name
                     /\ Stored[First(Attains(q, MaxSim(q)))].name = LastAcked.name
                        => out.speaker = LastAcked.name

\* C1 witness: with two speakers enrolled, the query equal to the vector just
\* enrolled for the second one is answered with that speaker and 1.0.
C1_Witness ==
    \E r \in Req :
        /\ EnrolledThenIdentified(r)
        /\ Len(voice_db) = 2
        /\ LastAcked.name = voice_db[2].name
        /\ req[r].out.speaker = LastAcked.name
        /\ req[r].out.confidence = One

\* C2: whenever the database holds no speaker, identify answers "Unknown" with
\* confidence 0.0 and has computed no similarity.
C2_EmptyDatabase ==
    \A r \in Req :
        (Answered(r) /\ voice_db = <<>>) =>
            /\ req[r].out.status = "ok"
            /\ req[r].out.speaker = Unknown
            /\ req[r].out.confidence = Zero
            /\ req[r].out.nsim = 0

\* C2 witness: an answer given for the empty database.
C2_Witness ==
    \E r \in Req :
        /\ Answered(r)
        /\ voice_db = <<>>
        /\ req[r].out.speaker = Unknown
        /\ req[r].out.confidence = Zero

Tie(r) ==
    /\ Embedded(r)
    /\ SameDim(Query(r))
    /\ HasMax(Query(r))
    /\ Cardinality(Attains(Query(r), MaxSim(Query(r)))) >= 2

FirstAtMax(r) == Stored[First(Attains(Query(r), MaxSim(Query(r))))].name

\* C4 as stated: when several stored vectors reach the same maximum similarity
\* to the query, identify returns the speaker that comes first in iteration
\* order.
C4_Original ==
    \A r \in Req : Tie(r) => req[r].out.speaker = FirstAtMax(r)

\* C4 as amended: when several stored vectors reach the same maximum similarity
\* to the query and that maximum is at least 0.70, identify returns the speaker
\* of the first of them in iteration order; below 0.70 it returns "Unknown".
C4_TieBreak ==
    \A r \in Req :
        Tie(r) =>
            req[r].out.speaker =
                IF Lt(MaxSim(Query(r)), Threshold) THEN Unknown ELSE FirstAtMax(r)

\* C4 witness: two speakers hold the vector of the query and the answer is the
\* one enrolled first.
C4_Witness ==
    \E r \in Req :
        /\ Tie(r)
        /\ Len(voice_db) = 2
        /\ voice_db[1].embs = <<Query(r)>>
        /\ voice_db[2].embs = <<Query(r)>>
        /\ req[r].out.speaker = voice_db[1].name
        /\ req[r].out.confidence = One

\* Slot r holds the answer {"status": "success"} of /enroll: the handler still
\* has the loop.
EnrollSucceeded(r) ==
    /\ req[r].kind = "enroll"
    /\ req[r].pc = "done"
    /\ req[r].out.status = "success"

\* The database as a restart would read it from the file.
Persisted == load_db(EMBEDDINGS_FILE)

\* C5: right after an enroll that reports success the file holds the whole
\* in-memory database, the vector just enrolled last in its speaker's list.
C5_SavedOnSuccess ==
    \A r \in Req :
        EnrollSucceeded(r) =>
            /\ EMBEDDINGS_FILE = FileOf(json_dump(Serialized(voice_db)))
            /\ Has(Persisted, req[r].name)
            /\ LET embs == Persisted[KeyIndex(Persisted, req[r].name)].embs
               IN  embs # <<>> /\ embs[Len(embs)] = req[r].emb

\* C5 witness: a successful enroll of a second vector, the file holding both.
C5_Witness ==
    \E r \in Req :
        /\ EnrollSucceeded(r)
        /\ TotalVecs(voice_db) = 2
        /\ TotalVecs(Persisted) = 2

\* Every vector of the database has the same dimension.
ConsistentDim(db) ==
    \A i, j \in 1..Len(Pairs(db)) : Len(Pairs(db)[i].emb) = Len(Pairs(db)[j].emb)

\* C6: saving the database and loading it again yields the same database (same
\* speakers in the same order, same vectors in the same order), for every
\* database with at least one vector and vectors of one dimension.
C6_RoundTrip ==
    (TotalVecs(voice_db) >= 1 /\ ConsistentDim(voice_db)) =>
        load_db(FileOf(json_dump(Serialized(voice_db)))) = voice_db

\* C6 witness: a process restarted on the file of a database with two
\* speakers, bob enrolled before alice, holds that database again.
C6_Witness ==
    /\ acked = <<>>
    /\ Len(voice_db) = 2
    /\ voice_db[1].name = "bob"
    /\ ConsistentDim(voice_db)
    /\ EMBEDDINGS_FILE = FileOf(json_dump(Serialized(voice_db)))
    /\ Persisted = voice_db

\* How often the enrollment a occurs among the pairs ps.
Occurrences(ps, a) ==
    Cardinality({i \in 1..Len(ps) : ps[i].name = a.name /\ ps[i].emb = a.emb})

\* The file holds the enrollment a as often as it was answered with success.
InFile(a) == Occurrences(Pairs(Persisted), a) >= Occurrences(acked, a)

\* Slot r answers success and another enrollment was answered with success
\* while the request of r was in flight: the two were handled concurrently.
ConcurrentPairDone(r) ==
    /\ EnrollSucceeded(r)
    /\ req[r].since < Len(acked) - 1

\* C7 as stated: two enroll requests handled concurrently interleave in their
\* append-then-save so that, both completed, the file lacks one of the two
\* vectors.
C7_Original ==
    \A r \in Req :
        ConcurrentPairDone(r) =>
            \E i \in (req[r].since + 1)..Len(acked) : ~InFile(acked[i])

\* C7 as amended: enroll requests handled concurrently do not interleave in
\* their append-then-save (there is no await between the append and the end of
\* save_db): when an enroll reports success the file holds every vector
\* enrolled with success so far, those of concurrent requests included.
C7_NoLostUpdate ==
    \A r \in Req :
        EnrollSucceeded(r) => \A i \in 1..Len(acked) : InFile(acked[i])

\* C7 witness: two enroll requests in flight together have both completed and
\* the file holds both vectors.
C7_Witness ==
    \E r \in Req :
        /\ ConcurrentPairDone(r)
        /\ \A i \in 1..Len(acked) : InFile(acked[i])

\* The requests inside save_db: file opened for writing and not yet closed.
Writers == {r \in Req : req[r].pc = "writing"}

\* C8: at every instant at most one request is writing the database file.
C8_OneWriter == Cardinality(Writers) <= 1

\* C8 witness: a request is inside save_db while another enroll request is in
\* flight.
C8_Witness ==
    \E r, s \in Req :
        /\ r \in Writers
        /\ req[s].kind = "enroll"
        /\ req[s].pc = "await_read"

Keys(db) == {db[i].name : i \in 1..Len(db)}

\* The try block of identify raised: the encoder failed or np.dot met a stored
\* vector of another dimension.
IdentifyRaised(r) == voice_db # <<>> /\ (Query(r) = <<>> \/ ~SameDim(Query(r)))

\* C9: identify always answers normally with a label and a score: the label is
\* an enrolled speaker, "Unknown" or "Error", the score is a number, and the
\* label is "Error" exactly when the try block raised.
C9_NeverFails ==
    \A r \in Req :
        /\ req[r].kind = "identify" => req[r].out.status \in {"none", "ok"}
        /\ Answered(r) =>
            /\ req[r].out.status = "ok"
            /\ req[r].out.speaker \in Keys(voice_db) \cup {Unknown, Error}
            /\ ~req[r].out.confidence.nan
            /\ IdentifyRaised(r) => req[r].out.speaker = Error
            /\ ~IdentifyRaised(r) => req[r].out.speaker \in Keys(voice_db) \cup {Unknown}

\* C9 witness: the encoder failed on the query and the answer is "Error", 0.0.
C9_Witness ==
    \E r \in Req :
        /\ Answered(r)
        /\ voice_db # <<>>
        /\ Query(r) = <<>>
        /\ req[r].out.status = "ok"
        /\ req[r].out.speaker = Error
        /\ req[r].out.confidence = Zero

\* C10 as stated: when the cosine of a scanned pair has a zero denominator (the
\* query or the stored vector has zero norm), identify answers "Error".
C10_ZeroNormIsError ==
    \A r \in Req :
        (/\ Embedded(r)
         /\ SameDim(Query(r))
         /\ \E i \in 1..Len(Stored) : Cosine(Query(r), Stored[i].emb) = NaN) =>
            req[r].out.speaker = Error

\* The vector sequence of speaker k in db (empty when k is no key of db).
ListOf(db, k) == IF Has(db, k) THEN db[KeyIndex(db, k)].embs ELSE <<>>

\* s is a prefix of t.
IsPrefix(s, t) == Len(s) <= Len(t) /\ SubSeq(t, 1, Len(s)) = s

\* Every key of old is a key of new, with old's sequence as a prefix of new's.
Grows(old, new) ==
    \A k \in Keys(old) : Has(new, k) /\ IsPrefix(ListOf(old, k), ListOf(new, k))

\* C11: within a process lifetime the database only grows: every step other
\* than a restart of the process keeps every speaker key and extends each
\* speaker's vector sequence at its end (so every earlier sequence is a prefix
\* of every later one).
C11_OnlyGrows == [][Restart \/ Grows(voice_db, voice_db')]_vars

\* C11 witness: within one process lifetime a second speaker was enrolled after
\* a first one, and the first speaker's key and vector are still there.
C11_Witness ==
    /\ Len(acked) = 2
    /\ acked[1].name # acked[2].name
    /\ Len(voice_db) = 2
    /\ voice_db[1] = [name |-> acked[1].name, embs |-> <<acked[1].emb>>]
    /\ voice_db[2] = [name |-> acked[2].name, embs |-> <<acked[2].emb>>]

\* The text of the file is cut short: it does not end with the closing brace of
\* a JSON object (an emptied file, or the beginning of a document).
Truncated(f) == f.exists /\ (f.text = <<>> \/ f.text[Len(f.text)] # RBrace)

\* A database loaded from no file or from a cut-short file is empty.
StartsEmpty ==
    (~EMBEDDINGS_FILE.exists \/ Truncated(EMBEDDINGS_FILE)) => voice_db = <<>>

C13_OneDimension == ConsistentDim(voice_db)

\* c lies in [-1, 1].
InRange(c) == Ge(c, MinusOne) /\ Ge(One, c)

\* C14 as stated: the confidence of every answer of identify lies in the
\* closed interval [-1, 1], whatever the database, the query and the label.
C14_ConfidenceInRange ==
    \A r \in Req : Answered(r) => InRange(req[r].out.confidence)

\* new is old with exactly one entry added: v at the end of the sequence of n,
\* every other sequence and every other entry of n's as in old.
ExactlyAppended(old, new, n, v) ==
    /\ Keys(new) = Keys(old) \cup {n}
    /\ Len(new) = Cardinality(Keys(new))
    /\ ListOf(new, n) = Append(ListOf(old, n), v)
    /\ \A k \in Keys(old) \ {n} : ListOf(new, k) = ListOf(old, k)

\* The step in which the handler of slot r appends (lines 89-91).
Appends(r) == req[r].pc # "appended" /\ req'[r].pc = "appended"

\* A later step of the same handler, up to its answer.
Saves(r) ==
    /\ req[r].pc \in {"appended", "writing"}
    /\ req'[r].pc \in {"writing", "done"}

\* C15: an enroll of vector V under speaker S appends exactly one entry, V, at
\* the end of S's sequence (the sequence created when S is new, V added also
\* when S holds it already), every other sequence and the earlier entries of S
\* unchanged, and the database stays so until the handler has answered.
C15_AppendsOne ==
    [][\A r \in Req :
         /\ Appends(r) =>
                ExactlyAppended(voice_db, voice_db', req'[r].name, req'[r].emb)
         /\ Saves(r) => voice_db' = voice_db]_vars

\* C15 witness: one speaker enrolled twice with different vectors, both answered
\* with success, holds both vectors in the order of the enrollments.
C15_Witness ==
    \E r \in Req :
        /\ EnrollSucceeded(r)
        /\ Len(acked) = 2
        /\ acked[1].name = acked[2].name
        /\ acked[1].emb # acked[2].emb
        /\ ListOf(voice_db, acked[1].name) = <<acked[1].emb, acked[2].emb>>

\* The speakers that own a stored vector whose similarity to q is m.
Owners(q, m) == {Stored[i].name : i \in Attains(q, m)}

BestOf(q) == IF HasMax(q) /\ Gt(MaxSim(q), MinusOne) THEN MaxSim(q) ELSE MinusOne

IdentifyStep(r) ==
    /\ req'[r] # req[r]
    /\ req[r].kind = "identify" \/ req'[r].kind = "identify"

\* C17: identify is read-only: no step of an identify handler, whatever its
\* answer, changes the in-memory database or the database file, also while
\* enroll requests are in flight (a restart of the process is no such step).
C17_ReadOnly ==
    [][Restart \/ \A r \in Req :
                     IdentifyStep(r) =>
                         /\ voice_db' = voice_db
                         /\ EMBEDDINGS_FILE' = EMBEDDINGS_FILE]_vars

\* C17 witness: identify has answered with a speaker while an enroll request is
\* in flight, and the file still holds the database as saved.
C17_Witness ==
    \E r, s \in Req :
        /\ Answered(r)
        /\ req[r].out.speaker \in Keys(voice_db)
        /\ req[s].kind = "enroll"
        /\ req[s].pc = "await_read"
        /\ EMBEDDINGS_FILE = FileOf(json_dump(Serialized(voice_db)))

\* Slot r holds the HTTP 500 answer of a failed enroll: the handler still has
\* the loop.
EnrollFailed(r) ==
    /\ req[r].kind = "enroll"
    /\ req[r].pc = "done"
    /\ req[r].out.status = "http500"

\* C18 as stated: when an enroll request fails (the embedding provider or the
\* save failed), the in-memory database and the database file are as before
\* the request, so that the file still holds the in-memory database.
C18_FailedEnrollChangesNothing ==
    \A r \in Req : EnrollFailed(r) => Persisted = voice_db

====
